---- MODULE Spec2Model ----
(***************************************************************************)
(* read-lens backend: the like workflow of BookController and the          *)
(* preference accumulation of BookController.setPreference, over the       *)
(* Book, UserLike and UserPreference tables.                               *)
(*                                                                         *)
(* Every request is a process that runs BookController.like; one action    *)
(* is the code between two awaited calls (catalog call or storage call),   *)
(* which is the granularity at which requests of one Node.js process       *)
(* interleave.  Strings whose content the code inspects are sequences:     *)
(* subjects are sequences of characters, messages sequences of words.      *)
(***************************************************************************)
EXTENDS Integers, Sequences, FiniteSets, Bags, TLC

(* ------------------------------ bounds -------------------------------- *)

\* like requests issued in one behaviour
MaxRequests == 2

\* requests that create an account (registration, Google sign-in) in one
\* behaviour
MaxRegistrations == 2

\* authenticated accounts issuing them
NumUsers == 2

Requests == 1..MaxRequests
Registrations == 1..MaxRegistrations
Users == 1..NumUsers

(* ------------------------- strings of the code ------------------------ *)

\* characters of the subject strings: two letters in both cases, and blank
Chars == {"P", "p", "Q", "q", " "}

\* one character of String.prototype.toLowerCase
LowerChar(c) == CASE c = "P" -> "p" [] c = "Q" -> "q" [] OTHER -> c

toLowerCase(s) == [i \in 1..Len(s) |-> LowerChar(s[i])]

IsSpace(c) == c = " "

RECURSIVE TrimStart(_)
TrimStart(s) == IF s # <<>> /\ IsSpace(Head(s)) THEN TrimStart(Tail(s)) ELSE s

RECURSIVE TrimEnd(_)
TrimEnd(s) ==
  IF s # <<>> /\ IsSpace(s[Len(s)]) THEN TrimEnd(SubSeq(s, 1, Len(s) - 1)) ELSE s

\* String.prototype.trim
trim(s) == TrimEnd(TrimStart(s))

\* String.prototype.includes, on messages taken as sequences of words
Includes(msg, part) ==
  \E i \in 0..(Len(msg) - Len(part)) : SubSeq(msg, i + 1, i + Len(part)) = part

(* ------------------------- the catalog (OpenLib) ---------------------- *)

\* the keys the likes of Spec and SeqSpec name
Olids == {"OL1", "OL2", "OL3", "OL4", "OL5", "OL6", "OL7"}

\* What the remote catalog holds for each work key: a work with its subject
\* list, a work without a subjects field, no such work (HTTP 404), or a
\* failing upstream (HTTP 500), or no answer at all (the host name does not
\* resolve).  OL1 and OL2 share a subject in different spellings, OL2 has
\* empty and blank subjects, OL3 names one subject twice, which OL8 names
\* too.
Catalog(key) ==
  CASE key = "OL1" -> [kind |-> "work", hasSubjects |-> TRUE, subjects |-> << <<"P">> >>]
    [] key = "OL2" -> [kind |-> "work", hasSubjects |-> TRUE,
                       subjects |-> << <<>>, <<" ", "P", " ">>, <<" ">> >>]
    [] key = "OL3" -> [kind |-> "work", hasSubjects |-> TRUE,
                       subjects |-> << <<"q">>, <<"q">> >>]
    [] key = "OL4" -> [kind |-> "work", hasSubjects |-> FALSE, subjects |-> <<>>]
    [] key = "OL5" -> [kind |-> "http404", hasSubjects |-> FALSE, subjects |-> <<>>]
    [] key = "OL6" -> [kind |-> "http500", hasSubjects |-> FALSE, subjects |-> <<>>]
    [] key = "OL8" -> [kind |-> "work", hasSubjects |-> TRUE, subjects |-> << <<"q">> >>]
    [] OTHER       -> [kind |-> "network", hasSubjects |-> FALSE, subjects |-> <<>>]

NoError == [name |-> "none", message |-> <<>>, status |-> 0]

NoWork == [isNull |-> TRUE, hasSubjects |-> FALSE, subjects |-> <<>>]

\* OpenLib.getWork: response.data, or the Error it throws
getWork(key) ==
  LET c == Catalog(key) IN
  CASE c.kind = "work" ->
         [work |-> [isNull |-> FALSE, hasSubjects |-> c.hasSubjects,
                    subjects |-> c.subjects],
          error |-> NoError]
    [] c.kind = "http404" ->
         [work |-> NoWork,
          error |-> [name |-> "Error", message |-> <<"Work", "not", "found", ":", key>>,
                     status |-> 0]]
    [] c.kind = "http500" ->
         [work |-> NoWork,
          error |-> [name |-> "Error",
                     message |-> <<"Failed", "to", "fetch", "work", ":", "Request",
                                   "failed", "with", "status", "code", "500">>,
                     status |-> 0]]
    [] OTHER ->
         [work |-> NoWork,
          error |-> [name |-> "Error",
                     message |-> <<"Failed", "to", "fetch", "work", ":", "getaddrinfo",
                                   "ENOTFOUND", "openlibrary.org">>,
                     status |-> 0]]

(* --------------------------- error translation ------------------------ *)

DuplicateLike ==
  [name |-> "DuplicateError",
   message |-> <<"You", "have", "already", "liked", "this", "book">>, status |-> 0]

OrDefault(message, default) == IF message = <<>> THEN default ELSE message

\* the names errorHandler has a case for
KnownNames ==
  {"ValidationError", "SequelizeValidationError", "DuplicateError",
   "SequelizeUniqueConstraintError", "SequelizeForeignKeyConstraintError",
   "Unauthenticated", "JsonWebTokenError", "TokenExpiredError", "InvalidCredentials",
   "Forbidden", "NotFound", "InvalidGoogleToken", "SequelizeDatabaseError",
   "SequelizeConnectionError", "SequelizeConnectionRefusedError"}

\* the errors a route hands to next(error): a name with a case or without
\* one, a message or none, a status property or none
Errors ==
  [name : KnownNames \cup {"Error", "TypeError"},
   message : {<<>>, <<"boom">>, <<"secret", "detail">>},
   status : {0, 404, 418}]

\* a middleware without the switch, which sends the message of the error
\* with its status property or 500
errorHandler_OwnMessage(error) ==
  [status |-> IF error.status # 0 THEN error.status ELSE 500, message |-> error.message]

\* middlewares/errorHandler: the status and message sent for an error
errorHandler(error) ==
  CASE error.name \in {"ValidationError", "SequelizeValidationError"} ->
         [status |-> 400, message |-> OrDefault(error.message, <<"Validation", "error">>)]
    [] error.name \in {"DuplicateError", "SequelizeUniqueConstraintError"} ->
         [status |-> 400, message |-> OrDefault(error.message, <<"Duplicate", "entry">>)]
    [] error.name = "SequelizeForeignKeyConstraintError" ->
         [status |-> 400,
          message |-> <<"Invalid", "reference", "to", "related", "resource">>]
    [] error.name \in {"Unauthenticated", "JsonWebTokenError", "TokenExpiredError"} ->
         [status |-> 401,
          message |-> OrDefault(error.message, <<"Authentication", "required">>)]
    [] error.name = "InvalidCredentials" ->
         [status |-> 401, message |-> OrDefault(error.message, <<"Invalid", "credentials">>)]
    [] error.name = "Forbidden" ->
         [status |-> 403, message |-> OrDefault(error.message, <<"Access", "forbidden">>)]
    [] error.name = "NotFound" ->
         [status |-> 404, message |-> OrDefault(error.message, <<"Resource", "not", "found">>)]
    [] error.name = "InvalidGoogleToken" ->
         [status |-> 400, message |-> OrDefault(error.message, <<"Invalid", "Google", "token">>)]
    [] error.name = "SequelizeDatabaseError" ->
         [status |-> 500, message |-> <<"Database", "error", "occurred">>]
    [] error.name \in {"SequelizeConnectionError", "SequelizeConnectionRefusedError"} ->
         [status |-> 503, message |-> <<"Database", "connection", "failed">>]
    [] OTHER ->
         IF error.status # 0
           THEN [status |-> error.status, message |-> error.message]
           ELSE [status |-> 500, message |-> <<"Internal", "Server", "Error">>]

\* the catch block of like without its remapping of 'not found' messages
likeCatch_NoRemap(error) == error

\* the catch block of BookController.like, before next(error)
likeCatch(error) ==
  IF Includes(error.message, <<"not", "found">>)
    THEN [name |-> "NotFound", message |-> <<"Book", "not", "found">>,
          status |-> error.status]
    ELSE error

(* ------------------------ accounts: the values ------------------------ *)

\* well-formed e-mail addresses (the isEmail validation of the User model)
Emails == {"ann@x.io", "bob@x.io"}

IsEmail(email) == email \in Emails

\* passwords, as the characters typed
Secret == <<"s", "e", "c", "r", "e", "t">>
Hunter == <<"h", "u", "n", "t", "e", "r">>
Short == <<"a", "b", "c">>

\* the salts bcrypt can draw
Salts == {1, 2}

\* A JavaScript value that is assigned to the password attribute: a string
\* of characters (kind "string"), a bcrypt hash string of the characters
\* `text` under `salt` (kind "bcrypt"), or a Promise (kind "promise") that
\* resolves to such a hash, or rejects when salt = 0.  `hashed` counts the
\* calls of hashPassword the value went through.
Text(s) == [kind |-> "string", text |-> s, salt |-> 0, hashed |-> 0]

\* the attribute left out of a JSON body
Absent == [kind |-> "absent", text |-> <<>>, salt |-> 0, hashed |-> 0]

\* helpers/bcrypt hashPassword: return bcrypt.hash(password, 10), which is
\* called without a callback and so returns a Promise; bcrypt.hash rejects
\* an argument that is not a string
hashPassword(password, salt) ==
  IF password.kind = "string"
    THEN [kind |-> "promise", text |-> password.text, salt |-> salt,
          hashed |-> password.hashed + 1]
    ELSE [kind |-> "promise", text |-> <<>>, salt |-> 0, hashed |-> password.hashed + 1]

\* helpers/bcrypt comparePassword: bcrypt.compareSync(password, hashedPassword)
\* is true for a bcrypt hash of the password and false for every other string
comparePassword(password, hashedPassword) ==
  hashedPassword.kind = "bcrypt" /\ hashedPassword.text = password

\* the insert did not take the value
Rejected == [kind |-> "rejected", text |-> <<>>, salt |-> 0, hashed |-> 0]

\* What an INSERT leaves in a STRING column for a value.  A string is stored
\* as it is.  A Promise is an object: depending on the storage driver it is
\* serialised as JSON, which gives the text {}, or the value is refused and
\* the insert throws.
Persisted(value) ==
  IF value.kind = "promise"
    THEN {[kind |-> "string", text |-> <<"{", "}">>, salt |-> 0, hashed |-> value.hashed],
          Rejected}
    ELSE {value}

\* session tokens: the payload generateToken signs, and whether the
\* signature is the server's
NoToken == [id |-> 0, email |-> "", role |-> "", signed |-> FALSE]

\* helpers/jwt generateToken({ id, email, role })
generateToken(user) ==
  [id |-> user.id, email |-> user.email, role |-> user.role, signed |-> TRUE]

\* a token that was not signed with the server's secret
ForgedToken == [id |-> 1, email |-> "ann@x.io", role |-> "admin", signed |-> FALSE]

\* the user object of the bodies of register, login and Google sign-in:
\* { id, email, username, role }
Shown(user) ==
  [id |-> user.id, email |-> user.email, username |-> user.username,
   role |-> user.role, password |-> Absent, books |-> {}]

\* The parameters of a query string: absent (undefined), or a text.
Missing == [given |-> FALSE, text |-> <<>>]

Given(text) == [given |-> TRUE, text |-> text]

\* the texts of ?limit= and ?page=
QueryTexts ==
  {<<>>, <<"0">>, <<"1">>, <<"7">>, <<"2", "0">>, <<"1", "0", "0">>, <<"1", "0", "1">>,
   <<"5", "0", "0">>, <<"-", "5">>, <<"a", "b", "c">>, <<"1", "2", "a">>, <<" ", "3">>,
   <<"1", ".", "9">>, <<"0", "x", "1", "0">>}

Queries == {Missing} \cup {Given(text) : text \in QueryTexts}

\* the value of a digit in radix 16, or -1
HexDigit(c) ==
  CASE c = "0" -> 0 [] c = "1" -> 1 [] c = "2" -> 2 [] c = "3" -> 3 [] c = "4" -> 4
    [] c = "5" -> 5 [] c = "6" -> 6 [] c = "7" -> 7 [] c = "8" -> 8 [] c = "9" -> 9
    [] c = "a" -> 10 [] c = "b" -> 11 [] c = "c" -> 12 [] c = "d" -> 13
    [] c = "e" -> 14 [] c = "f" -> 15 [] OTHER -> -1

\* the value of a digit in the radix, or -1
Digit(c, radix) == IF HexDigit(c) < radix THEN HexDigit(c) ELSE -1

\* the number the leading digits of s denote, after the digits that gave n
RECURSIVE DigitsValue(_, _, _)
DigitsValue(s, radix, n) ==
  IF s = <<>> \/ Digit(Head(s), radix) < 0 THEN n
  ELSE DigitsValue(Tail(s), radix, radix * n + Digit(Head(s), radix))

NaN == [nan |-> TRUE, value |-> 0]

Number(n) == [nan |-> FALSE, value |-> n]

\* parseInt(string) without a radix: leading white space, a sign, the prefix
\* 0x for radix 16, and the longest run of digits; NaN when there is no digit
parseInt(text) ==
  LET t == TrimStart(text)
      signed == t # <<>> /\ Head(t) \in {"-", "+"}
      u == IF signed THEN Tail(t) ELSE t
      hex == Len(u) >= 2 /\ u[1] = "0" /\ u[2] = "x"
      radix == IF hex THEN 16 ELSE 10
      digits == IF hex THEN SubSeq(u, 3, Len(u)) ELSE u
      n == DigitsValue(digits, radix, 0) IN
  IF digits = <<>> \/ Digit(Head(digits), radix) < 0 THEN NaN
  ELSE Number(IF signed /\ Head(t) = "-" THEN 0 - n ELSE n)

\* a || b on numbers: NaN and 0 are falsy
OrElse(a, b) == IF a.nan \/ a.value = 0 THEN b ELSE a.value

Min(a, b) == IF a < b THEN a ELSE b

Max(a, b) == IF a > b THEN a ELSE b

\* const { limit = 20 } = req.query; parseInt(limit)
Parsed(q, default) == IF q.given THEN parseInt(q.text) ELSE Number(default)

\* const validLimit = Math.min(Math.max(parseInt(limit) || 20, 1), 100)
validLimit(limit) == Min(Max(OrElse(Parsed(limit, 20), 20), 1), 100)

\* const validPage = Math.max(parseInt(page) || 1, 1)
validPage(page) == Max(OrElse(Parsed(page, 1), 1), 1)

\* Math.ceil(a / b) for a >= 0 and b > 0
CeilDiv(a, b) == (a + b - 1) \div b

\* what OpenLib.search answers: numFound results, or the Error it throws
SearchResults ==
  {[error |-> NoError, numFound |-> n] : n \in {0, 100, 101}}
    \cup {[error |-> [name |-> "Error",
                      message |-> <<"Failed", "to", "search", "OpenLibrary", ":",
                                    "Network", "Error">>,
                      status |-> 0],
           numFound |-> 0]}

\* of a list request: its query, the limit and page OpenLib.search was called
\* with, and the pagination of the body
NoList ==
  [limit |-> Missing, page |-> Missing, called |-> [limit |-> 0, page |-> 0],
   totalResults |-> 0, totalPages |-> 0]

\* the Authorization header of a request that has none to show
NoHeader == [kind |-> "", token |-> NoToken]

\* a response: the operation that answered, status, message, the user
\* objects and the token of the body; and of the request, the email of a
\* login and the Authorization header of a request to a protected route; of
\* a list request, its query and pagination; of an error handed to the
\* error middleware by itself, the error
NoOut ==
  [op |-> "", status |-> 0, message |-> <<>>, users |-> {}, token |-> NoToken,
   email |-> "", header |-> NoHeader, list |-> NoList, error |-> NoError]

\* the response the error middleware sends for an error of operation op
Reply(op, error) ==
  [NoOut EXCEPT !.op = op, !.status = errorHandler(error).status,
                !.message = errorHandler(error).message]

\* the locals of a request that creates an account, and whether its INSERT
\* went through (created)
NoAccount ==
  [pc |-> "idle", op |-> "", email |-> "", password |-> Text(<<>>), username |-> "",
   role |-> "", created |-> FALSE]

(* -------------------------------- state ------------------------------- *)

VARIABLES
  books,   \* table Books: rows [id, olid]
  likes,   \* table UserLikes: rows [userId, bookId], a bag (no code reads their id)
  prefs,   \* table UserPreferences: rows [id, userId, subject, weight]
  seq,     \* the id sequence of Books, UserPreferences and Users
  req,     \* per request: position in BookController.like and its locals
  resp,    \* per request: the response sent, once sent
  pre,     \* the tables as they were when the latest request arrived
  users,   \* table Users: rows [id, email, password, username, role]
  acc,     \* per account-creating request: position and locals
  accResp, \* per account-creating request: the response sent, once sent
  issued,  \* the session tokens handed out so far
  out      \* the latest response of the other operations

vars == <<books, likes, prefs, seq, req, resp, pre, users, acc, accResp, issued, out>>

\* the state of the account operations
accountVars == <<users, acc, accResp, issued, out>>

NoPref == [id |-> 0, userId |-> 0, subject |-> <<>>, weight |-> 0]

NoResp == [status |-> 0, message |-> <<>>, preferencesUpdated |-> 0, error |-> "none"]

\* the locals of like and setPreference, and what the request went through:
\* lostRace (its insert of the book hit the uniqueness constraint) and
\* prefFailed (its subject loop threw)
IdleReq ==
  [pc |-> "idle", userId |-> 0, id |-> "", work |-> NoWork, bookId |-> 0, idx |-> 0,
   existingPreference |-> NoPref, lostRace |-> FALSE, prefFailed |-> FALSE]

NoTables == [books |-> {}, likes |-> EmptyBag, prefs |-> {}]

Init ==
  /\ books = {}
  /\ likes = EmptyBag
  /\ prefs = {}
  /\ seq = [t \in {"Books", "UserPreferences", "Users"} |-> 0]
  /\ req = [r \in Requests |-> IdleReq]
  /\ resp = [r \in Requests |-> NoResp]
  /\ pre = NoTables
  /\ users = {}
  /\ acc = [k \in Registrations |-> NoAccount]
  /\ accResp = [k \in Registrations |-> NoOut]
  /\ issued = {}
  /\ out = NoOut

InFlight(r) == req[r].pc \notin {"idle", "done"}

\* no request is between its arrival and its response
Quiet == \A r \in Requests : ~InFlight(r)

(* ------------------------- BookController.like ------------------------ *)

\* what is left of a request's locals once its response is sent
Finished(q) ==
  [q EXCEPT !.pc = "done", !.work = NoWork, !.idx = 0, !.existingPreference = NoPref]

\* the catch block of like and the error middleware: the response to a
\* request that threw
Failure(error) ==
  LET answer == errorHandler(likeCatch(error)) IN
  [status |-> answer.status, message |-> answer.message, preferencesUpdated |-> 0,
   error |-> error.name]

\* res.status(201).json({ message, book, preferencesUpdated:
\* work.subjects?.length || 0 })
Success(work) ==
  [status |-> 201, message |-> <<"Book", "liked", "successfully">>,
   preferencesUpdated |-> IF work.hasSubjects THEN Len(work.subjects) ELSE 0,
   error |-> "none"]

BookNotInOpenLibrary ==
  [name |-> "NotFound", message |-> <<"Book", "not", "found", "in", "OpenLibrary">>,
   status |-> 0]

\* the Book row made before the catalog is asked
StartLike_BookFirst(r, u, id) ==
  LET w == getWork(id)
      q == [IdleReq EXCEPT !.userId = u, !.id = id] IN
  /\ req[r].pc = "idle"
  /\ \A p \in Requests : p < r => req[p].pc # "idle"
  /\ IF \E b \in books : b.olid = id
       THEN UNCHANGED <<books, seq>>
       ELSE /\ books' = books \cup {[id |-> seq["Books"] + 1, olid |-> id]}
            /\ seq' = [seq EXCEPT !["Books"] = @ + 1]
  /\ IF w.error # NoError
       THEN /\ req' = [req EXCEPT ![r] = Finished(q)]
            /\ resp' = [resp EXCEPT ![r] = Failure(w.error)]
       ELSE IF w.work.isNull
       THEN /\ req' = [req EXCEPT ![r] = Finished(q)]
            /\ resp' = [resp EXCEPT ![r] = Failure(BookNotInOpenLibrary)]
       ELSE /\ req' = [req EXCEPT ![r] = [q EXCEPT !.pc = "findBook", !.work = w.work]]
            /\ UNCHANGED resp
  /\ UNCHANGED <<likes, prefs>>

\* POST /book/:id/like arrives with req.user.id = u and runs up to its first
\* storage call: const work = await OpenLib.getWork(id); if (!work) throw NotFound.
\* Requests are numbered in the order they arrive.
StartLike(r, u, id) ==
  LET w == getWork(id)
      q == [IdleReq EXCEPT !.userId = u, !.id = id] IN
  /\ req[r].pc = "idle"
  /\ \A p \in Requests : p < r => req[p].pc # "idle"
  /\ IF w.error # NoError
       THEN /\ req' = [req EXCEPT ![r] = Finished(q)]
            /\ resp' = [resp EXCEPT ![r] = Failure(w.error)]
       ELSE IF w.work.isNull
       THEN /\ req' = [req EXCEPT ![r] = Finished(q)]
            /\ resp' = [resp EXCEPT ![r] = Failure(BookNotInOpenLibrary)]
       ELSE /\ req' = [req EXCEPT ![r] = [q EXCEPT !.pc = "findBook", !.work = w.work]]
            /\ UNCHANGED resp
  /\ UNCHANGED <<books, likes, prefs, seq>>

\* a Books table without a uniqueness constraint on olid
NoOlidConstraint == FALSE

\* The storage layer's uniqueness constraint on Books.olid.
BookOlidUnique == TRUE

UniqueConstraintError ==
  [name |-> "SequelizeUniqueConstraintError", message |-> <<"Validation", "error">>,
   status |-> 0]

\* a find followed by Book.create in place of findOrCreate: the constraint
\* violation reaches the catch block of like
OnBookConflict_Thrown(r) ==
  /\ req' = [req EXCEPT ![r] = [Finished(req[r]) EXCEPT !.lostRace = TRUE]]
  /\ resp' = [resp EXCEPT ![r] = Failure(UniqueConstraintError)]

\* findOrCreate when its insert hits the uniqueness constraint: the error is
\* caught inside findOrCreate, which goes on to find the row that is there
OnBookConflict(r) ==
  /\ req' = [req EXCEPT ![r].pc = "refindBook", ![r].lostRace = TRUE]
  /\ UNCHANGED resp

\* const [book, created] = await Book.findOrCreate({ where: { olid: id },
\* defaults: { olid: id } }): one storage statement per step, which is a find,
\* then an insert when nothing was found, then a second find when the insert
\* hit the uniqueness constraint (the row another request created meanwhile).
FindOrCreateBook(r) ==
  LET found == {b \in books : b.olid = req[r].id} IN
  /\ req[r].pc \in {"findBook", "createBook", "refindBook"}
  /\ CASE req[r].pc = "findBook" ->
            /\ IF found # {}
                 THEN \E b \in found :
                        req' = [req EXCEPT ![r].pc = "findLike", ![r].bookId = b.id]
                 ELSE req' = [req EXCEPT ![r].pc = "createBook"]
            /\ UNCHANGED <<books, seq, resp>>
       [] req[r].pc = "createBook" ->
            /\ seq' = [seq EXCEPT !["Books"] = @ + 1]
            /\ IF BookOlidUnique /\ found # {}
                 THEN /\ OnBookConflict(r)
                      /\ UNCHANGED books
                 ELSE /\ books' = books \cup {[id |-> seq["Books"] + 1, olid |-> req[r].id]}
                      /\ req' = [req EXCEPT ![r].pc = "findLike",
                                            ![r].bookId = seq["Books"] + 1]
                      /\ UNCHANGED resp
       [] OTHER ->
            /\ IF found # {}
                 THEN /\ \E b \in found :
                           req' = [req EXCEPT ![r].pc = "findLike", ![r].bookId = b.id]
                      /\ UNCHANGED resp
                 ELSE /\ req' = [req EXCEPT ![r] = Finished(req[r])]
                      /\ resp' = [resp EXCEPT ![r] = Failure(UniqueConstraintError)]
            /\ UNCHANGED <<books, seq>>
  /\ UNCHANGED <<likes, prefs, pre>>

\* the check of the trimmed subject's length left out
Skipped_EmptyOnly(subject) == subject = <<>>

\* setPreference skips a subject that is empty or blank
Skipped(subject) == subject = <<>> \/ trim(subject) = <<>>

\* the position of the first subject from position i on that is not skipped
RECURSIVE NextSubject(_, _)
NextSubject(subjects, i) ==
  IF i > Len(subjects) \/ ~Skipped(subjects[i]) THEN i ELSE NextSubject(subjects, i + 1)

\* the subjects read together before any is written (a Promise.all over the
\* list in place of the loop): after the first subject, what was read stands
Continue_ReadTogether(q, i) ==
  LET j == IF q.work.hasSubjects /\ Len(q.work.subjects) > 0
             THEN NextSubject(q.work.subjects, i)
             ELSE Len(q.work.subjects) + 1 IN
  IF j <= Len(q.work.subjects)
    THEN IF i = 1
           THEN [q EXCEPT !.pc = "findPreference", !.idx = j, !.existingPreference = NoPref]
           ELSE [q EXCEPT !.pc = "writePreference", !.idx = j]
    ELSE Finished(q)

\* The request after a storage call of like or of the subject loop: at the
\* storage call of the next subject that is not skipped, or done when
\* setPreference has returned and the response is sent.
Continue(q, i) ==
  LET j == IF q.work.hasSubjects /\ Len(q.work.subjects) > 0
             THEN NextSubject(q.work.subjects, i)
             ELSE Len(q.work.subjects) + 1 IN
  IF j <= Len(q.work.subjects)
    THEN [q EXCEPT !.pc = "findPreference", !.idx = j, !.existingPreference = NoPref]
    ELSE Finished(q)

\* the response, sent when the request is done
Answer(r, q) ==
  resp' = [resp EXCEPT ![r] = IF q.pc = "done" THEN Success(req[r].work) ELSE @]

\* the duplicate check left out
FindLike_NoCheck(r) ==
  /\ req[r].pc = "findLike"
  /\ req' = [req EXCEPT ![r].pc = "createLike"]
  /\ UNCHANGED <<books, likes, prefs, seq, resp, pre>>

\* the duplicate check with where: { userId } alone
FindLike_ByUserOnly(r) ==
  /\ req[r].pc = "findLike"
  /\ IF \E l \in BagToSet(likes) : l.userId = req[r].userId
       THEN /\ req' = [req EXCEPT ![r] = Finished(req[r])]
            /\ resp' = [resp EXCEPT ![r] = Failure(DuplicateLike)]
       ELSE /\ req' = [req EXCEPT ![r].pc = "createLike"]
            /\ UNCHANGED resp
  /\ UNCHANGED <<books, likes, prefs, seq, pre>>

\* UserLike.create moved in front of the duplicate check
FindLike_CreateFirst(r) ==
  /\ req[r].pc = "findLike"
  /\ likes' = likes (+) SetToBag({[userId |-> req[r].userId, bookId |-> req[r].bookId]})
  /\ IF \E l \in BagToSet(likes) : l.userId = req[r].userId /\ l.bookId = req[r].bookId
       THEN /\ req' = [req EXCEPT ![r] = Finished(req[r])]
            /\ resp' = [resp EXCEPT ![r] = Failure(DuplicateLike)]
       ELSE /\ req' = [req EXCEPT ![r] = Continue(req[r], 1)]
            /\ Answer(r, Continue(req[r], 1))
  /\ UNCHANGED <<books, prefs, seq, pre>>

\* const existingLike = await UserLike.findOne({ where: { userId, bookId } });
\* if (existingLike) throw DuplicateError
FindLike(r) ==
  /\ req[r].pc = "findLike"
  /\ IF \E l \in BagToSet(likes) : l.userId = req[r].userId /\ l.bookId = req[r].bookId
       THEN /\ req' = [req EXCEPT ![r] = Finished(req[r])]
            /\ resp' = [resp EXCEPT ![r] = Failure(DuplicateLike)]
       ELSE /\ req' = [req EXCEPT ![r].pc = "createLike"]
            /\ UNCHANGED resp
  /\ UNCHANGED <<books, likes, prefs, seq, pre>>

\* await UserLike.create({ userId, bookId }); then
\* if (work.subjects && work.subjects.length > 0) setPreference(userId, subjects)
CreateLike(r) ==
  /\ req[r].pc = "createLike"
  /\ likes' = likes (+) SetToBag({[userId |-> req[r].userId, bookId |-> req[r].bookId]})
  /\ req' = [req EXCEPT ![r] = Continue(req[r], 1)]
  /\ Answer(r, Continue(req[r], 1))
  /\ UNCHANGED <<books, prefs, seq, pre>>

(* --------------------- BookController.setPreference ------------------- *)

\* const normalizedSubject = subject.trim()
normalizedSubject(subject) == trim(subject)

\* the model without its beforeCreate hook
beforeCreate_NoHook(row) == row

\* UserPreference.beforeCreate: user.subject = user.subject.toLowerCase()
beforeCreate(row) == [row EXCEPT !.subject = toLowerCase(row.subject)]

\* the lookup with where: { subject } alone
MatchingPreferences_AnyUser(userId, subject) == {p \in prefs : p.subject = subject}

\* the rows UserPreference.findOne({ where: { userId, subject } }) can return:
\* the column is compared with the value as given
MatchingPreferences(userId, subject) ==
  {p \in prefs : p.userId = userId /\ p.subject = subject}

\* const existingPreference = await UserPreference.findOne(...)
FindPreference(r) ==
  LET found == MatchingPreferences(req[r].userId,
                                   normalizedSubject(req[r].work.subjects[req[r].idx])) IN
  /\ req[r].pc = "findPreference"
  /\ IF found = {}
       THEN req' = [req EXCEPT ![r].pc = "writePreference",
                               ![r].existingPreference = NoPref]
       ELSE \E p \in found :
              req' = [req EXCEPT ![r].pc = "writePreference",
                                 ![r].existingPreference = p]
  /\ UNCHANGED <<books, likes, prefs, seq, resp, pre>>

\* await existingPreference.update({ weight: existingPreference.weight + 1 }):
\* the row with that id gets the weight that was read, plus one
UpdatePreference(r) ==
  LET e == req[r].existingPreference IN
  /\ req[r].pc = "writePreference"
  /\ e # NoPref
  /\ prefs' = {IF p.id = e.id THEN [p EXCEPT !.weight = e.weight + 1] ELSE p : p \in prefs}
  /\ req' = [req EXCEPT ![r] = Continue(req[r], req[r].idx + 1)]
  /\ Answer(r, Continue(req[r], req[r].idx + 1))
  /\ UNCHANGED <<books, likes, seq, pre>>

\* await UserPreference.create({ userId, subject: normalizedSubject, weight: 1 })
CreatePreference(r) ==
  /\ req[r].pc = "writePreference"
  /\ req[r].existingPreference = NoPref
  /\ seq' = [seq EXCEPT !["UserPreferences"] = @ + 1]
  /\ prefs' = prefs \cup
       {beforeCreate([id |-> seq["UserPreferences"] + 1, userId |-> req[r].userId,
                      subject |-> normalizedSubject(req[r].work.subjects[req[r].idx]),
                      weight |-> 1])}
  /\ req' = [req EXCEPT ![r] = Continue(req[r], req[r].idx + 1)]
  /\ Answer(r, Continue(req[r], req[r].idx + 1))
  /\ UNCHANGED <<books, likes, pre>>

\* the try/catch inside the loop: the subject that failed is left out and the
\* loop goes on with the next
PreferenceThrows_Resumes(r) ==
  /\ req[r].pc \in {"findPreference", "writePreference"}
  /\ req' = [req EXCEPT ![r] = [Continue(req[r], req[r].idx + 1) EXCEPT !.prefFailed = TRUE]]
  /\ Answer(r, Continue(req[r], req[r].idx + 1))
  /\ UNCHANGED <<books, likes, prefs, seq, pre>>

\* setPreference without its try/catch: the error reaches the catch block of like
PreferenceThrows_Rethrown(r) ==
  /\ req[r].pc \in {"findPreference", "writePreference"}
  /\ req' = [req EXCEPT ![r] = [Finished(req[r]) EXCEPT !.prefFailed = TRUE]]
  /\ resp' = [resp EXCEPT ![r] =
       Failure([name |-> "SequelizeConnectionError",
                message |-> <<"connection", "refused">>, status |-> 0])]
  /\ UNCHANGED <<books, likes, prefs, seq, pre>>

\* A storage call of the subject loop throws (the store is unreachable, say):
\* catch (error) { console.error(...) } ends setPreference without rethrowing,
\* and like sends its response.
PreferenceThrows(r) ==
  /\ req[r].pc \in {"findPreference", "writePreference"}
  /\ req' = [req EXCEPT ![r] = [Finished(req[r]) EXCEPT !.prefFailed = TRUE]]
  /\ resp' = [resp EXCEPT ![r] = Success(req[r].work)]
  /\ UNCHANGED <<books, likes, prefs, seq, pre>>

(* ------------------------------ errorHandler -------------------------- *)

\* app.use(errorHandler): the response to an error a route passed to next
HandleError(error) ==
  /\ out' = [Reply("errorHandler", error) EXCEPT !.error = error]
  /\ UNCHANGED <<books, likes, prefs, seq, req, resp, pre, users, acc, accResp, issued>>

(* -------------------------- BookController.list ----------------------- *)

\* GET /?limit=&page=: the pagination parameters are validated,
\* OpenLib.search(query, validLimit, validPage) is called, and the body has
\* pagination: { currentPage, limit, totalResults, totalPages }; an error of
\* the search goes to next(error)
List(limit, page, results) ==
  LET called == [limit |-> validLimit(limit), page |-> validPage(page)]
      asked == [NoList EXCEPT !.limit = limit, !.page = page, !.called = called] IN
  /\ out' = IF results.error # NoError
              THEN [Reply("list", results.error) EXCEPT !.list = asked]
              ELSE [NoOut EXCEPT
                      !.op = "list", !.status = 200,
                      !.list = [asked EXCEPT
                                  !.totalResults = results.numFound,
                                  !.totalPages = CeilDiv(results.numFound, called.limit)]]
  /\ UNCHANGED <<books, likes, prefs, seq, req, resp, pre, users, acc, accResp, issued>>

(* ---------------------------- UserController -------------------------- *)

\* updateUsername: the new username of req.body
Usernames == {"ann"}

FieldsRequired ==
  [name |-> "ValidationError",
   message |-> <<"Email,", "password,", "and", "username", "are", "required">>,
   status |-> 0]

PasswordTooShort ==
  [name |-> "ValidationError",
   message |-> <<"Password", "must", "be", "at", "least", "6", "characters", "long">>,
   status |-> 0]

\* the isEmail validation of the User model failing
EmailInvalid ==
  [name |-> "SequelizeValidationError", message |-> <<"Email", "is", "invalid">>,
   status |-> 0]

\* the uniqueness constraint on Users.email failing (errors[0].path = 'email')
EmailTaken ==
  [name |-> "SequelizeUniqueConstraintError",
   message |-> <<"Email", "is", "already", "registered">>, status |-> 0]

\* the storage driver refusing a value
InvalidValue == [name |-> "Error", message |-> <<"Invalid", "value">>, status |-> 0]

UserNotFound == [name |-> "NotFound", message |-> <<"User", "not", "found">>, status |-> 0]

\* the catch block of register, before next(error)
registerCatch(error) ==
  IF error.name = "SequelizeUniqueConstraintError"
    THEN [name |-> "DuplicateError", message |-> <<"email", "already", "exists">>,
          status |-> error.status]
    ELSE error

\* the catch block of googleOAuthLogin, before next(error)
googleCatch(error) ==
  IF error.message # <<>> /\ Includes(error.message, <<"Token">>)
    THEN [name |-> "InvalidGoogleToken", message |-> <<"Invalid", "Google", "token">>,
          status |-> error.status]
    ELSE error

\* what is left of the locals of an account-creating request that failed
Failed(op) == [NoAccount EXCEPT !.pc = "done", !.op = op]

\* POST /register arrives and runs up to await User.create(...)
RegisterArrives(k, email, password, username, role) ==
  LET q == [pc |-> "create", op |-> "register", email |-> email,
            password |-> Text(password), username |-> username,
            role |-> IF role = "" THEN "user" ELSE role, created |-> FALSE] IN
  /\ acc[k].pc = "idle"
  /\ \A j \in Registrations : j < k => acc[j].pc # "idle"
  /\ IF email = "" \/ password = <<>> \/ username = ""
       THEN /\ acc' = [acc EXCEPT ![k] = Failed("register")]
            /\ accResp' = [accResp EXCEPT ![k] = Reply("register", registerCatch(FieldsRequired))]
       ELSE IF Len(password) < 6
       THEN /\ acc' = [acc EXCEPT ![k] = Failed("register")]
            /\ accResp' = [accResp EXCEPT ![k] =
                             Reply("register", registerCatch(PasswordTooShort))]
       ELSE /\ acc' = [acc EXCEPT ![k] = q]
            /\ UNCHANGED accResp
  /\ UNCHANGED <<books, likes, prefs, seq, req, resp, pre, users, issued, out>>

\* the ticket of the Google id tokens: a payload, or the error verifyIdToken throws
verifyIdToken(googleToken) ==
  CASE googleToken = "g-ann" -> [error |-> NoError, email |-> "ann@x.io", name |-> "ann"]
    [] googleToken = "g-bob" -> [error |-> NoError, email |-> "bob@x.io", name |-> ""]
    [] googleToken = "g-anon" -> [error |-> NoError, email |-> "", name |-> "reader"]
    [] googleToken = "g-late" ->
         [error |-> [name |-> "Error", message |-> <<"Token", "used", "too", "late">>,
                     status |-> 0],
          email |-> "", name |-> ""]
    [] OTHER ->
         [error |-> [name |-> "Error",
                     message |-> <<"Wrong", "number", "of", "segments", "in", "token">>,
                     status |-> 0],
          email |-> "", name |-> ""]

GoogleTokens == {"", "g-ann", "g-bob", "g-anon", "g-late", "g-bad"}

\* email.split('@')[0]
LocalPart(email) ==
  CASE email = "ann@x.io" -> "ann" [] email = "bob@x.io" -> "bob" [] OTHER -> email

GoogleTokenRequired ==
  [name |-> "ValidationError", message |-> <<"Google", "token", "is", "required">>,
   status |-> 0]

EmailNotProvided ==
  [name |-> "ValidationError",
   message |-> <<"Email", "not", "provided", "by", "Google">>, status |-> 0]

\* res.status(200).json({ message, access_token, user }) of googleOAuthLogin
GoogleSuccess(user) ==
  [NoOut EXCEPT !.op = "google", !.status = 200,
                !.message = <<"Google", "login", "successful">>,
                !.users = {Shown(user)}, !.token = generateToken(user)]

\* POST /auth/google arrives and runs up to the answer of User.findOne: the
\* account exists and the token is sent, or the request goes on to
\* User.create with hashPassword(Math.random()...) as its password
GoogleArrives(k, googleToken) ==
  LET ticket == verifyIdToken(googleToken)
      found == {u \in users : u.email = ticket.email}
      q == Failed("google") IN
  /\ acc[k].pc = "idle"
  /\ \A j \in Registrations : j < k => acc[j].pc # "idle"
  /\ IF googleToken = ""
       THEN /\ acc' = [acc EXCEPT ![k] = q]
            /\ accResp' = [accResp EXCEPT ![k] = Reply("google", googleCatch(GoogleTokenRequired))]
            /\ UNCHANGED issued
       ELSE IF ticket.error # NoError
       THEN /\ acc' = [acc EXCEPT ![k] = q]
            /\ accResp' = [accResp EXCEPT ![k] = Reply("google", googleCatch(ticket.error))]
            /\ UNCHANGED issued
       ELSE IF ticket.email = ""
       THEN /\ acc' = [acc EXCEPT ![k] = q]
            /\ accResp' = [accResp EXCEPT ![k] = Reply("google", googleCatch(EmailNotProvided))]
            /\ UNCHANGED issued
       ELSE IF found # {}
       THEN \E user \in found :
              /\ acc' = [acc EXCEPT ![k] = [q EXCEPT !.email = ticket.email]]
              /\ accResp' = [accResp EXCEPT ![k] = GoogleSuccess(user)]
              /\ issued' = issued \cup {generateToken(user)}
       ELSE \E salt \in Salts :
              /\ acc' = [acc EXCEPT ![k] =
                           [pc |-> "create", op |-> "google", email |-> ticket.email,
                            password |-> hashPassword(Text(<<"r">>), salt),
                            username |-> IF ticket.name # "" THEN ticket.name
                                         ELSE LocalPart(ticket.email),
                            role |-> "user", created |-> FALSE]]
              /\ UNCHANGED <<accResp, issued>>
  /\ UNCHANGED <<books, likes, prefs, seq, req, resp, pre, users, out>>

\* User.beforeCreate: user.password = hashPassword(user.password)
UserBeforeCreate(user, salt) ==
  [user EXCEPT !.password = hashPassword(user.password, salt)]

\* the response of the request that created the account
Created(q, user) ==
  IF q.op = "register"
    THEN [NoOut EXCEPT !.op = "register", !.status = 201,
                       !.message = <<"User", "registered", "successfully">>,
                       !.users = {Shown(user)}]
    ELSE GoogleSuccess(user)

\* the response of the request whose User.create threw
CreateFailed(q, error) ==
  Reply(q.op, IF q.op = "register" THEN registerCatch(error) ELSE googleCatch(error))

\* a Users table without the uniqueness constraint on email
NoEmailConstraint == FALSE

\* User.init: email: { unique: ... }
EmailUnique == TRUE

\* await User.create({ email, password, username, role }): the validations of
\* the model, the beforeCreate hook, and the INSERT, which takes an id from
\* the sequence and fails on an email that is there already
CreateUser(k) ==
  LET q == acc[k]
      id == seq["Users"] + 1 IN
  /\ q.pc = "create"
  /\ \E salt \in Salts :
       LET user == UserBeforeCreate([id |-> id, email |-> q.email, password |-> q.password,
                                     username |-> q.username, role |-> q.role], salt) IN
       \E stored \in Persisted(user.password) :
         IF ~IsEmail(q.email)
           THEN /\ acc' = [acc EXCEPT ![k] = Failed(q.op)]
                /\ accResp' = [accResp EXCEPT ![k] = CreateFailed(q, EmailInvalid)]
                /\ UNCHANGED <<users, seq, issued>>
         ELSE IF stored = Rejected
           THEN /\ acc' = [acc EXCEPT ![k] = Failed(q.op)]
                /\ accResp' = [accResp EXCEPT ![k] = CreateFailed(q, InvalidValue)]
                /\ UNCHANGED <<users, seq, issued>>
         ELSE IF EmailUnique /\ \E u \in users : u.email = q.email
           THEN /\ acc' = [acc EXCEPT ![k] = [Failed(q.op) EXCEPT !.email = q.email]]
                /\ accResp' = [accResp EXCEPT ![k] = CreateFailed(q, EmailTaken)]
                /\ seq' = [seq EXCEPT !["Users"] = id]
                /\ UNCHANGED <<users, issued>>
         ELSE /\ acc' = [acc EXCEPT ![k].pc = "done", ![k].created = TRUE]
              /\ users' = users \cup {[user EXCEPT !.password = stored]}
              /\ seq' = [seq EXCEPT !["Users"] = id]
              /\ accResp' = [accResp EXCEPT ![k] = Created(q, user)]
              /\ issued' = IF q.op = "google" THEN issued \cup {generateToken(user)}
                           ELSE issued
  /\ UNCHANGED <<books, likes, prefs, req, resp, pre, out>>

LoginRequired ==
  [name |-> "ValidationError", message |-> <<"Email", "and", "password", "are", "required">>,
   status |-> 0]

\* an unknown email told apart from a wrong password
UnknownEmail_Told ==
  [name |-> "InvalidCredentials", message |-> <<"Email", "is", "not", "registered">>,
   status |-> 0]

\* if (!user) throw { name: 'InvalidCredentials', message: 'Invalid email or password' }
UnknownEmail ==
  [name |-> "InvalidCredentials", message |-> <<"Invalid", "email", "or", "password">>,
   status |-> 0]

\* if (!isPasswordValid) throw { name: 'InvalidCredentials', message: ... }
WrongPassword ==
  [name |-> "InvalidCredentials", message |-> <<"Invalid", "email", "or", "password">>,
   status |-> 0]

\* POST /login: one query, User.findOne({ where: { email } })
Login(email, password) ==
  LET found == {u \in users : u.email = email} IN
  /\ IF email = "" \/ password = <<>>
       THEN /\ out' = [Reply("login", LoginRequired) EXCEPT !.email = email]
            /\ UNCHANGED issued
       ELSE IF found = {}
       THEN /\ out' = [Reply("login", UnknownEmail) EXCEPT !.email = email]
            /\ UNCHANGED issued
       ELSE \E user \in found :
              IF ~comparePassword(password, user.password)
                THEN /\ out' = [Reply("login", WrongPassword) EXCEPT !.email = email]
                     /\ UNCHANGED issued
                ELSE /\ out' = [NoOut EXCEPT !.op = "login", !.status = 200,
                                             !.message = <<"Login", "successful">>,
                                             !.users = {Shown(user)},
                                             !.token = generateToken(user),
                                             !.email = email]
                     /\ issued' = issued \cup {generateToken(user)}
  /\ UNCHANGED <<books, likes, prefs, seq, req, resp, pre, users, acc, accResp>>

\* the path parameters: ids as they are written in a path, and a username
Params == {"1", "2", "ann"}

IsNumeric(param) == param \in {"1", "2", "3"}

\* the integer a numeric path parameter denotes
ParseId(param) == CASE param = "1" -> 1 [] param = "2" -> 2 [] param = "3" -> 3 [] OTHER -> 0

\* the store refusing a primary key that is not an integer
InvalidInteger ==
  [name |-> "SequelizeDatabaseError",
   message |-> <<"invalid", "input", "syntax", "for", "type", "integer">>, status |-> 0]

\* the Books joined to the likes of account u (include: [{ model: Book, ... }])
BooksLikedBy(u) ==
  {b \in books : [userId |-> u, bookId |-> b.id] \in BagToSet(likes)}

\* UserController.readUser: User.findByPk(id, { attributes: { exclude:
\* ['password'] }, include: [Book] }), and res.json(user)
readUser(param) ==
  LET found == {u \in users : u.id = ParseId(param)} IN
  IF ~IsNumeric(param) THEN Reply("readUser", InvalidInteger)
  ELSE IF found = {} THEN Reply("readUser", UserNotFound)
  ELSE [NoOut EXCEPT !.op = "readUser", !.status = 200,
                     !.users = {[Shown(u) EXCEPT !.books = BooksLikedBy(u.id)] : u \in found}]

\* a row as JSON.stringify writes it, all its attributes included
AsJSON(user) ==
  [id |-> user.id, email |-> user.email, username |-> user.username,
   role |-> user.role, password |-> user.password, books |-> {}]

\* UserController.allUser: const users = await User.findAll();
\* res.status(200).json(users)
AllUser ==
  /\ out' = [NoOut EXCEPT !.op = "allUser", !.status = 200,
                          !.users = {AsJSON(u) : u \in users}]
  /\ UNCHANGED <<books, likes, prefs, seq, req, resp, pre, users, acc, accResp, issued>>

UsernameRequired ==
  [name |-> "ValidationError", message |-> <<"Username", "is", "required">>, status |-> 0]

\* UserController.updateUsername: findByPk, user.update({ username }), and the
\* row without its password in the body (taken as one step: no other
\* operation writes the username)
UpdateUsername(param, username) ==
  LET found == {u \in users : u.id = ParseId(param)} IN
  /\ IF username = ""
       THEN out' = Reply("updateUsername", UsernameRequired) /\ UNCHANGED users
       ELSE IF ~IsNumeric(param)
       THEN out' = Reply("updateUsername", InvalidInteger) /\ UNCHANGED users
       ELSE IF found = {}
       THEN out' = Reply("updateUsername", UserNotFound) /\ UNCHANGED users
       ELSE \E user \in found :
              /\ users' = (users \ {user}) \cup {[user EXCEPT !.username = username]}
              /\ out' = [NoOut EXCEPT !.op = "updateUsername", !.status = 200,
                                      !.message = <<"Username", "updated">>,
                                      !.users = {Shown([user EXCEPT !.username = username])}]
  /\ UNCHANGED <<books, likes, prefs, seq, req, resp, pre, acc, accResp, issued>>

\* a foreign key of UserLikes.userId without ON DELETE CASCADE
NotOf_NoCascade(table, u) == table

\* the rows of a table (a bag) that are not of account u
NotOf(table, u) ==
  [l \in {x \in DOMAIN table : x.userId # u} |-> table[l]]

\* UserController.delete: findByPk and user.destroy(), which takes the
\* account's UserLikes with it (ON DELETE CASCADE)
Delete(param) ==
  LET found == {u \in users : u.id = ParseId(param)} IN
  /\ IF ~IsNumeric(param)
       THEN out' = Reply("delete", InvalidInteger) /\ UNCHANGED <<users, likes>>
       ELSE IF found = {}
       THEN out' = Reply("delete", UserNotFound) /\ UNCHANGED <<users, likes>>
       ELSE /\ users' = users \ found
            /\ likes' = NotOf(likes, ParseId(param))
            /\ out' = [NoOut EXCEPT !.op = "delete", !.status = 200,
                                    !.message = <<"User", "deleted">>]
  /\ UNCHANGED <<books, prefs, seq, req, resp, pre, acc, accResp, issued>>

(* ------------------- the gate of the protected routes ----------------- *)

\* The Authorization header of a request: none, one without a second word
\* ("Bearer" alone, or a token without the prefix), "Bearer" with a token
\* that the server did not sign, or with a token it signed (expired by now,
\* or not).
Headers ==
  {[kind |-> k, token |-> NoToken] : k \in {"none", "bare"}}
    \cup {[kind |-> "forged", token |-> ForgedToken]}
    \cup {[kind |-> k, token |-> t] : k \in {"expired", "bearer"}, t \in issued}

\* helpers/jwt verifyToken: the payload, or the error jwt.verify throws
verifyToken(header) ==
  CASE header.kind = "forged" ->
         [error |-> [name |-> "JsonWebTokenError", message |-> <<"invalid", "signature">>,
                     status |-> 0],
          decoded |-> NoToken]
    [] header.kind = "expired" ->
         [error |-> [name |-> "TokenExpiredError", message |-> <<"jwt", "expired">>,
                     status |-> 0],
          decoded |-> NoToken]
    [] OTHER -> [error |-> NoError, decoded |-> header.token]

\* the catch block of authentication, before next(error)
authenticationCatch(error) ==
  CASE error.name = "JsonWebTokenError" ->
         [name |-> "Unauthenticated", message |-> <<"Invalid", "token">>,
          status |-> error.status]
    [] error.name = "TokenExpiredError" ->
         [name |-> "Unauthenticated", message |-> <<"Token", "has", "expired">>,
          status |-> error.status]
    [] OTHER -> error

Unauthenticated(message) ==
  [name |-> "Unauthenticated", message |-> message, status |-> 0]

NoUser == [id |-> 0, email |-> "", username |-> "", role |-> ""]

\* the gate passing every request on as account 1
authentication_Open(header) ==
  [error |-> NoError, user |-> [NoUser EXCEPT !.id = 1]]

\* the gate without its lookup of the account: req.user is the token's payload
authentication_TrustToken(header) ==
  IF header.kind = "none"
    THEN [error |-> Unauthenticated(<<"Please", "login", "first">>), user |-> NoUser]
  ELSE IF header.kind = "bare"
    THEN [error |-> Unauthenticated(<<"Invalid", "token", "format">>), user |-> NoUser]
  ELSE IF verifyToken(header).error # NoError
    THEN [error |-> authenticationCatch(verifyToken(header).error), user |-> NoUser]
  ELSE [error |-> NoError,
        user |-> [id |-> header.token.id, email |-> header.token.email,
                  username |-> "", role |-> header.token.role]]

\* middlewares authentication: the error passed to next, or req.user
authentication(header) ==
  LET found == {u \in users : u.id = verifyToken(header).decoded.id} IN
  IF header.kind = "none"
    THEN [error |-> Unauthenticated(<<"Please", "login", "first">>), user |-> NoUser]
  ELSE IF header.kind = "bare"
    THEN [error |-> Unauthenticated(<<"Invalid", "token", "format">>), user |-> NoUser]
  ELSE IF verifyToken(header).error # NoError
    THEN [error |-> authenticationCatch(verifyToken(header).error), user |-> NoUser]
  ELSE IF found = {}
    THEN [error |-> authenticationCatch(Unauthenticated(<<"User", "not", "found">>)),
          user |-> NoUser]
  ELSE LET user == CHOOSE u \in found : TRUE IN
       [error |-> NoError,
        user |-> [id |-> user.id, email |-> user.email, username |-> user.username,
                  role |-> user.role]]

\* the response to a request the gate turns away
Denied(header) ==
  [Reply("authentication", authentication(header).error) EXCEPT !.header = header]

\* POST /logout
Logout(header) ==
  /\ out' = IF authentication(header).error # NoError
              THEN Denied(header)
              ELSE [NoOut EXCEPT !.op = "logout", !.status = 200,
                                 !.message = <<"Logout", "successful">>,
                                 !.header = header]
  /\ UNCHANGED <<books, likes, prefs, seq, req, resp, pre, users, acc, accResp, issued>>

\* POST /book/:id/like: the gate, and behind it BookController.like with the
\* account the gate found
LikeRequest(r, header, id) ==
  IF authentication(header).error # NoError
    THEN /\ out' = Denied(header)
         /\ UNCHANGED <<books, likes, prefs, seq, req, resp, pre, users, acc, accResp, issued>>
    ELSE /\ StartLike(r, authentication(header).user.id, id)
         /\ UNCHANGED <<pre, accountVars>>


\* UserController.getUserBookshelf: the account of that username with its
\* books, or NotFound
getUserBookshelf(param) ==
  LET found == {u \in users : u.username = param} IN
  IF found = {} THEN Reply("getUserBookshelf", UserNotFound)
  ELSE [NoOut EXCEPT !.op = "getUserBookshelf", !.status = 200,
                     !.users = {[Shown(u) EXCEPT !.books = BooksLikedBy(u.id)] : u \in found}]

\* GET /user/:id and GET /user/:username/bookshelf: the gate, and behind it
\* the handler (its query is taken at the instant of the gate's: these
\* requests write nothing)
ReadRequest(op, header, param) ==
  /\ out' = IF authentication(header).error # NoError THEN Denied(header)
            ELSE IF op = "readUser" THEN [readUser(param) EXCEPT !.header = header]
            ELSE [getUserBookshelf(param) EXCEPT !.header = header]
  /\ UNCHANGED <<books, likes, prefs, seq, req, resp, pre, users, acc, accResp, issued>>

\* the foreign key of UserLikes.userId failing
ForeignKeyError ==
  [name |-> "SequelizeForeignKeyConstraintError",
   message |-> <<"insert", "or", "update", "violates", "foreign", "key", "constraint">>,
   status |-> 0]

\* UserLike.create for an account that has been deleted since the gate
InsertLike(r) ==
  IF \E u \in users : u.id = req[r].userId
    THEN CreateLike(r)
    ELSE /\ req[r].pc = "createLike"
         /\ req' = [req EXCEPT ![r] = Finished(req[r])]
         /\ resp' = [resp EXCEPT ![r] = Failure(ForeignKeyError)]
         /\ UNCHANGED <<books, likes, prefs, seq, pre>>

(* ---------------------------- specifications -------------------------- *)

\* what a request in flight does next
Step(r) ==
  \/ FindOrCreateBook(r)
  \/ FindLike(r)
  \/ CreateLike(r)
  \/ FindPreference(r)
  \/ UpdatePreference(r)
  \/ CreatePreference(r)
  \/ PreferenceThrows(r)

\* Spec and SeqSpec take the authenticated account of a like as given
\* (req.user.id = u) and number the accounts in the order of their first
\* request: the like workflow treats all account ids alike.
InOrder(u) == u = 1 \/ \E p \in Requests : req[p].userId = u - 1

\* requests arrive at any time and interleave at their awaited calls
Next ==
  \/ \E r \in Requests, u \in Users, id \in Olids :
       /\ InOrder(u)
       /\ StartLike(r, u, id)
       /\ UNCHANGED <<pre, accountVars>>
  \/ \E r \in Requests : Step(r) /\ UNCHANGED accountVars

Spec == Init /\ [][Next]_vars

\* works that share a subject: OL3 and OL8 name 'q', OL2 has a subject to
\* trim and subjects to skip
SharedOlids == {"OL2", "OL3", "OL8"}

\* concurrent likes of those works
SharedNext ==
  \/ \E r \in Requests, u \in Users, id \in SharedOlids :
       /\ InOrder(u)
       /\ StartLike(r, u, id)
       /\ UNCHANGED <<pre, accountVars>>
  \/ \E r \in Requests : Step(r) /\ UNCHANGED accountVars

SharedSpec == Init /\ [][SharedNext]_vars

\* non-concurrent execution: a request arrives only when none is in flight
\* (pre keeps the tables as they were at that moment)
SeqNext ==
  \/ \E r \in Requests, u \in Users, id \in Olids :
       /\ Quiet
       /\ InOrder(u)
       /\ StartLike(r, u, id)
       /\ pre' = [books |-> books, likes |-> likes, prefs |-> prefs]
       /\ UNCHANGED accountVars
  \/ \E r \in Requests : Step(r) /\ UNCHANGED accountVars

SeqSpec == Init /\ [][SeqNext]_vars

\* the bodies of POST /register: a complete one with the default role and one
\* with a role of its own, and one for each validation that turns a body down
\* (no email, no password, a short password, an email that is none)
Bodies ==
  {[email |-> "ann@x.io", password |-> Secret, username |-> "reader", role |-> ""],
   [email |-> "bob@x.io", password |-> Secret, username |-> "reader", role |-> "admin"],
   [email |-> "", password |-> Secret, username |-> "reader", role |-> ""],
   [email |-> "ann@x.io", password |-> <<>>, username |-> "reader", role |-> ""],
   [email |-> "ann@x.io", password |-> Short, username |-> "reader", role |-> ""],
   [email |-> "nomail", password |-> Secret, username |-> "reader", role |-> ""]}

\* the account operations of UserController, one request after the other
\* except for the requests that create accounts, which interleave at
\* User.create; bob@x.io signs in with Google, and the gate turns the other
\* headers away, under GateSpec
AccountNext ==
  \/ \E k \in Registrations, body \in Bodies :
       RegisterArrives(k, body.email, body.password, body.username, body.role)
  \/ \E k \in Registrations, googleToken \in GoogleTokens \ {"g-bob"} :
       GoogleArrives(k, googleToken)
  \/ \E k \in Registrations : CreateUser(k)
  \/ \E email \in Emails \cup {""}, password \in {<<>>, Secret, Hunter} :
       Login(email, password)
  \/ AllUser
  \/ \E param \in Params, username \in Usernames \cup {""} : UpdateUsername(param, username)
  \/ \E header \in {h \in Headers : h.kind \in {"none", "bearer"}}, param \in Params :
       ReadRequest("readUser", header, param)

AccountSpec == Init /\ [][AccountNext]_vars

\* the works liked through the gate: one with subjects, one the catalog
\* does not have
GateOlids == {"OL3", "OL5"}

\* the like requests that pass the gate: the first request slot (requests
\* the gate turns away take none)
GateRequests == {1}

\* the protected routes: accounts come from Google sign-in, which hands out
\* the tokens, and are deleted; requests reach the handlers through the gate
GateNext ==
  \/ \E k \in Registrations, googleToken \in {"g-ann", "g-bob"} :
       GoogleArrives(k, googleToken)
  \/ \E k \in Registrations : CreateUser(k)
  \/ \E param \in Params : Delete(param)
  \/ \E header \in Headers : Logout(header)
  \/ \E r \in GateRequests, header \in Headers, id \in GateOlids :
       LikeRequest(r, header, id)
  \/ \E op \in {"readUser", "getUserBookshelf"}, header \in Headers, param \in Params :
       ReadRequest(op, header, param)
  \/ \E r \in GateRequests :
       /\ \/ FindOrCreateBook(r)
          \/ FindLike(r)
          \/ InsertLike(r)
          \/ FindPreference(r)
          \/ UpdatePreference(r)
          \/ CreatePreference(r)
          \/ PreferenceThrows(r)
       /\ UNCHANGED accountVars

GateSpec == Init /\ [][GateNext]_vars

\* the work on the bookshelves of the accounts that are deleted (it has no
\* subjects: the like ends with its Like row)
ShelfOlids == {"OL4"}

\* accounts that sign in, like works through the gate with their session
\* tokens, and are deleted at any moment, also with a like in flight
DeleteNext ==
  \/ \E k \in Registrations, googleToken \in {"g-ann", "g-bob"} :
       GoogleArrives(k, googleToken)
  \/ \E k \in Registrations : CreateUser(k)
  \/ \E r \in Requests, header \in {h \in Headers : h.kind = "bearer"}, id \in ShelfOlids :
       LikeRequest(r, header, id)
  \/ \E r \in Requests :
       /\ \/ FindOrCreateBook(r)
          \/ FindLike(r)
          \/ InsertLike(r)
       /\ UNCHANGED accountVars
  \/ \E param \in Params : Delete(param)

DeleteSpec == Init /\ [][DeleteNext]_vars

\* the error middleware on its own
ErrorNext == \E error \in Errors : HandleError(error)

ErrorSpec == Init /\ [][ErrorNext]_vars

\* the public list route
ListNext ==
  \E limit \in Queries, page \in Queries, results \in SearchResults :
    List(limit, page, results)

ListSpec == Init /\ [][ListNext]_vars

(* ------------------------------ properties ---------------------------- *)

\* the request that arrived last, once its response is sent
IsLatest(r) == req[r].pc = "done" /\ \A q \in Requests : q > r => req[q].pc = "idle"

\* account u has a like of the work with catalog id `id` in these tables
Liked(tables, u, id) ==
  \E b \in tables.books :
    /\ b.olid = id
    /\ [userId |-> u, bookId |-> b.id] \in BagToSet(tables.likes)

\* the summed weight of a set of Preference rows
RECURSIVE SumWeights(_)
SumWeights(S) ==
  IF S = {} THEN 0
  ELSE LET p == CHOOSE x \in S : TRUE IN p.weight + SumWeights(S \ {p})

\* the number of rows of a table (a bag) that are in the set S
RECURSIVE RowsIn(_, _)
RowsIn(S, table) ==
  IF S = {} THEN 0
  ELSE LET l == CHOOSE x \in S : TRUE IN CopiesIn(l, table) + RowsIn(S \ {l}, table)

\* the Preference rows of account u for the stored subject s
PreferencesOf(table, u, s) == {p \in table : p.userId = u /\ p.subject = s}

\* the summed weight account u has for subject s
TotalWeight(table, u, s) == SumWeights(PreferencesOf(table, u, s))

\* a subject as the spec normalizes it: trimmed and lower-cased
Normalized(subject) == toLowerCase(trim(subject))

\* the normalized subjects of a work of the catalog
SubjectsOf(id) ==
  {Normalized(Catalog(id).subjects[i]) : i \in 1..Len(Catalog(id).subjects)} \ {<<>>}

AllSubjects == UNION {SubjectsOf(id) : id \in Olids}

\* the number of Like rows of account u whose work names subject s
LikesNaming(u, s) ==
  RowsIn({l \in BagToSet(likes) :
            /\ l.userId = u
            /\ \E b \in books : b.id = l.bookId /\ s \in SubjectsOf(b.olid)}, likes)

NoPreferenceFailure == \A r \in Requests : ~req[r].prefFailed

\* no work of the catalog names subject s twice in its list
NamedOncePerWork(s) ==
  \A id \in Olids :
    Cardinality({i \in 1..Len(Catalog(id).subjects) :
                   Normalized(Catalog(id).subjects[i]) = s}) <= 1

\* C1: under non-concurrent execution there is at most one Like row per
\* (account, book), and a like of a book the account has already liked is
\* rejected with DuplicateError (400, 'already liked') without a second row.
C1_OneLikePerPair ==
  /\ \A l \in BagToSet(likes) : CopiesIn(l, likes) = 1
  /\ \A r \in Requests :
       IsLatest(r) /\ Liked(pre, req[r].userId, req[r].id) =>
         /\ resp[r].status = 400
         /\ resp[r].error = "DuplicateError"
         /\ Includes(resp[r].message, <<"already", "liked">>)
         /\ likes = pre.likes

C1_Witness ==
  \E r \in Requests :
    IsLatest(r) /\ Liked(pre, req[r].userId, req[r].id) /\ resp[r].status = 400

\* C2: a like of a catalog work the account has not liked yet answers 201 and
\* adds exactly one Like row, for that account and that book; it adds exactly
\* one Book row when the catalog id had none, and none when it had one.
C2_NewLikeAddsOneRow ==
  \A r \in Requests :
    IsLatest(r) /\ Catalog(req[r].id).kind = "work"
                /\ ~Liked(pre, req[r].userId, req[r].id) =>
      /\ resp[r].status = 201
      /\ \E b \in books :
           /\ b.olid = req[r].id
           /\ likes = pre.likes (+) SetToBag({[userId |-> req[r].userId, bookId |-> b.id]})
           /\ IF \E old \in pre.books : old.olid = req[r].id
                THEN books = pre.books
                ELSE b \notin pre.books /\ books = pre.books \cup {b}

C2_Witness ==
  \E r \in Requests :
    /\ IsLatest(r) /\ resp[r].status = 201
    /\ \E old \in pre.books : old.olid = req[r].id
    /\ BagCardinality(likes) = 2

\* C3: under sequential execution and without a failed preference update, an
\* account that has n > 0 likes naming a subject (one that no work names
\* twice) has a single Preference for it, with weight n: two liked books that
\* both name "Programming" give one "programming" row of weight 2.
C3_WeightCountsLikes ==
  Quiet /\ NoPreferenceFailure =>
    \A u \in Users, s \in AllSubjects :
      NamedOncePerWork(s) /\ LikesNaming(u, s) > 0 =>
        \E p \in prefs : /\ PreferencesOf(prefs, u, s) = {p}
                         /\ p.weight = LikesNaming(u, s)

\* C4: under sequential execution there is at most one Preference row per
\* (account, normalized subject).
C4_OnePreferencePerSubject ==
  \A p1, p2 \in prefs :
    p1.userId = p2.userId /\ Normalized(p1.subject) = Normalized(p2.subject) => p1 = p2

\* C5: one like raises the weight an account has for a normalized subject by
\* at most 1, also when the work's list names the subject more than once.
C5_AtMostOnePerLike ==
  \A r \in Requests :
    IsLatest(r) =>
      \A s \in AllSubjects :
        TotalWeight(prefs, req[r].userId, s) <= TotalWeight(pre.prefs, req[r].userId, s) + 1

UpperChars == {c \in Chars : LowerChar(c) # c}

\* C6: the subject of every stored Preference row is trimmed and lower-cased,
\* whatever spelling the catalog subject had, in every interleaving of likes.
C6_SubjectsNormalized ==
  \A p \in prefs :
    /\ p.subject # <<>>
    /\ ~IsSpace(p.subject[1]) /\ ~IsSpace(p.subject[Len(p.subject)])
    /\ \A i \in 1..Len(p.subject) : p.subject[i] \notin UpperChars

C6_Witness ==
  \E r \in Requests :
    /\ req[r].pc = "done" /\ req[r].id = "OL2" /\ resp[r].status = 201
    /\ ~req[r].prefFailed
    /\ PreferencesOf(prefs, req[r].userId, <<"p">>) # {}

\* C7: in every interleaving of like requests there is at most one Book row
\* per catalog id.
C7_OneBookPerOlid == \A b1, b2 \in books : b1.olid = b2.olid => b1 = b2

C7_Witness ==
  \E r1, r2 \in Requests :
    /\ req[r1].lostRace /\ req[r1].pc = "done" /\ req[r2].pc = "done"
    /\ req[r1].id = req[r2].id /\ req[r1].userId # req[r2].userId
    /\ Cardinality(books) = 1

\* C8: a request whose insert of the Book row hits the uniqueness constraint
\* goes on with the row that exists; no response carries the constraint error.
C8_LoserContinues ==
  \A r \in Requests :
    /\ resp[r].error # "SequelizeUniqueConstraintError"
    /\ req[r].lostRace /\ req[r].pc \notin {"refindBook"} =>
         /\ \E b \in books : b.olid = req[r].id /\ b.id = req[r].bookId
         /\ req[r].pc = "done" =>
              resp[r].status = 201 \/ resp[r].error = "DuplicateError"

C8_Witness ==
  \E r1, r2 \in Requests :
    /\ r1 # r2 /\ req[r1].id = req[r2].id
    /\ req[r1].lostRace /\ ~req[r2].lostRace
    /\ resp[r1].status = 201 /\ resp[r2].status = 201

\* C9: when the preference update of a like throws, the request still answers
\* 201 and the Like row it created stays in the table.
C9_LikeSurvivesPreferenceFailure ==
  \A r \in Requests :
    req[r].prefFailed =>
      /\ req[r].pc = "done"
      /\ resp[r].status = 201 /\ resp[r].error = "none"
      /\ [userId |-> req[r].userId, bookId |-> req[r].bookId] \in BagToSet(likes)

C9_Witness == \E r \in Requests : req[r].prefFailed /\ resp[r].status = 201

\* C10: a like rejected as a duplicate leaves the Like rows and the Preference
\* rows, weights included, as they were when the request arrived.
C10_DuplicateWritesNothing ==
  \A r \in Requests :
    IsLatest(r) /\ resp[r].error = "DuplicateError" =>
      likes = pre.likes /\ prefs = pre.prefs

C10_Witness ==
  \E r \in Requests :
    IsLatest(r) /\ resp[r].error = "DuplicateError" /\ prefs # {}

\* C11: a like of a work the catalog reports as missing (HTTP 404) is
\* answered 404 with the message 'Book not found'; a like whose catalog call
\* fails in any other way is answered 500 with the generic message; in both
\* cases the request ends with that one catalog call (it is never in flight
\* afterwards, so nothing is called again).
C11_CatalogFailures ==
  \A r \in Requests :
    req[r].pc # "idle" =>
      /\ Catalog(req[r].id).kind = "http404" =>
           /\ req[r].pc = "done"
           /\ resp[r].status = 404 /\ resp[r].message = <<"Book", "not", "found">>
      /\ Catalog(req[r].id).kind \in {"http500", "network"} =>
           /\ req[r].pc = "done"
           /\ resp[r].status = 500
           /\ resp[r].message = <<"Internal", "Server", "Error">>

C11_Witness ==
  \E r1, r2 \in Requests :
    /\ Catalog(req[r1].id).kind = "http404" /\ resp[r1].status = 404
    /\ Catalog(req[r2].id).kind = "network" /\ resp[r2].status = 500

\* the subjects of a list that setPreference does not skip
Processed(subjects) ==
  {i \in 1..Len(subjects) : subjects[i] # <<>> /\ trim(subjects[i]) # <<>>}

\* C12: the preferencesUpdated of a successful like is the number of the
\* work's subjects that are left after the empty and blank ones are filtered
\* out, and 0 for a work without subjects.
C12_CountsProcessedSubjects ==
  \A r \in Requests :
    req[r].pc = "done" /\ resp[r].status = 201 =>
      resp[r].preferencesUpdated =
        IF Catalog(req[r].id).hasSubjects
          THEN Cardinality(Processed(Catalog(req[r].id).subjects))
          ELSE 0

\* the Preference rows of account u
OwnPreferences(table, u) == {p \in table : p.userId = u}

\* C13: a like skips the subjects that are empty or blank after trimming: no
\* Preference row has an empty or blank subject, and the weights of the
\* account grow by the number of the other subjects of the list, which are
\* all processed.
C13_EmptySubjectsSkipped ==
  /\ \A p \in prefs : trim(p.subject) # <<>>
  /\ \A r \in Requests :
       IsLatest(r) /\ resp[r].status = 201 /\ ~req[r].prefFailed =>
         SumWeights(OwnPreferences(prefs, req[r].userId)) =
           SumWeights(OwnPreferences(pre.prefs, req[r].userId))
             + Cardinality(Processed(Catalog(req[r].id).subjects))

C13_Witness ==
  \E r \in Requests :
    /\ IsLatest(r) /\ resp[r].status = 201 /\ ~req[r].prefFailed
    /\ req[r].id = "OL2"
    /\ OwnPreferences(prefs, req[r].userId) # {}

\* a request carries a valid session token: a token the server signed, not
\* expired, of an account that exists
ValidSession(header) ==
  /\ header.kind = "bearer"
  /\ header.token.signed
  /\ \E u \in users : u.id = header.token.id

\* the like workflow is left as it is: no row and no request changes
NothingRuns == UNCHANGED <<books, likes, prefs, seq, req, resp, users>>

\* the operations that answer a request to a protected route
GateAnswers == {"authentication", "logout", "readUser", "getUserBookshelf"}

\* C14: a request to a protected route (POST /logout, POST /book/:id/like,
\* GET /user/:id, GET /user/:username/bookshelf) that carries no valid session
\* token is answered 401 by the gate, and its handler does not run: no row of
\* any table is written, and a like request starts only for the account of a
\* valid session token.
C14_GateRejects ==
  [][/\ out' # out /\ out'.op \in GateAnswers /\ ~ValidSession(out'.header) =>
          out'.op = "authentication" /\ out'.status = 401 /\ NothingRuns
     /\ \A r \in Requests :
          req[r].pc = "idle" /\ req'[r].pc # "idle" =>
            \E header \in Headers :
              ValidSession(header) /\ header.token.id = req'[r].userId]_vars

C14_Witness ==
  /\ out.op = "authentication" /\ out.status = 401
  /\ out.message = <<"Please", "login", "first">>
  /\ users # {} /\ books = {} /\ likes = EmptyBag /\ prefs = {}

\* the successful registration of slot k, whose account still exists
Registered(k) ==
  /\ acc[k].op = "register" /\ acc[k].created
  /\ \E u \in users : u.email = acc[k].email /\ {u.id} = {j.id : j \in accResp[k].users}

\* C15: after a registration with password p, a login with the account's email
\* and p answers 200 with a token that decodes to the account's id, email and
\* role; a login with that email and another password answers 401.
C15_LoginAfterRegister ==
  [][\A k \in Registrations, password \in {Secret, Hunter} :
       Registered(k) /\ Login(acc[k].email, password) =>
         IF password = acc[k].password.text
           THEN /\ out'.status = 200
                /\ \E u \in users :
                     /\ u.email = acc[k].email
                     /\ verifyToken([kind |-> "bearer", token |-> out'.token]).decoded =
                          [id |-> u.id, email |-> u.email, role |-> u.role, signed |-> TRUE]
           ELSE out'.status = 401]_vars

\* what the client sees of a response
Observable(o) ==
  [status |-> o.status, message |-> o.message, users |-> o.users, token |-> o.token]

\* C16: a login with an email no account has and a login with an account's
\* email and a password it was not registered with get the same response:
\* 401, 'Invalid email or password', and nothing else.
C16_SameLoginFailure ==
  [][\A email \in Emails, password \in {Secret, Hunter} :
       /\ Login(email, password)
       /\ \/ ~\E u \in users : u.email = email
          \/ ~\E k \in Registrations :
                Registered(k) /\ acc[k].email = email /\ acc[k].password.text = password
       => Observable(out') =
            [status |-> 401, message |-> <<"Invalid", "email", "or", "password">>,
             users |-> {}, token |-> NoToken]]_vars

C16_Witness ==
  /\ out.op = "login" /\ out.status = 401
  /\ \E u \in users : u.email = out.email
  /\ \E email \in Emails : ~\E u \in users : u.email = email

\* C17: every account's stored password is a bcrypt hash string that went
\* through the hash function exactly once, for accounts created by
\* registration and by Google sign-in, and it differs from the plaintext.
C17_HashedOnce ==
  /\ \A u \in users : u.password.kind = "bcrypt" /\ u.password.hashed = 1
  /\ \A k \in Registrations :
       Registered(k) => \A u \in users : u.email = acc[k].email => u.password # acc[k].password

\* the requests that created an account with this email
CreatorsOf(email) == {k \in Registrations : acc[k].created /\ acc[k].email = email}

\* C18: no two accounts have the same email; a registration that is answered
\* 400 'email already exists' created no account, and of the requests whose
\* insert reached the store with one email (one after the other, or
\* interleaved) exactly one created the account.
C18_EmailUnique ==
  /\ \A u1, u2 \in users : u1.email = u2.email => u1 = u2
  /\ \A u \in users : Cardinality(CreatorsOf(u.email)) = 1
  /\ \A k \in Registrations :
       acc[k].pc = "done" /\ acc[k].op = "register" /\ acc[k].email # "" =>
         /\ Cardinality(CreatorsOf(acc[k].email)) = 1
         /\ IF acc[k].created
              THEN accResp[k].status = 201
              ELSE /\ accResp[k].status = 400
                   /\ accResp[k].message = <<"email", "already", "exists">>
                   /\ accResp[k].users = {}

C18_Witness ==
  \E k1, k2 \in Registrations :
    /\ k1 < k2 /\ acc[k1].op = "register" /\ acc[k2].op = "register"
    /\ acc[k1].email = acc[k2].email
    /\ acc[k2].created /\ accResp[k2].status = 201
    /\ acc[k1].pc = "done" /\ accResp[k1].status = 400

\* a session token handed out to an account that has been deleted since
TokenOfDeleted(header) ==
  /\ header.kind = "bearer"
  /\ header.token \in issued
  /\ ~\E u \in users : u.id = header.token.id

UserNotFoundAnswer ==
  [status |-> 401, message |-> <<"User", "not", "found">>, users |-> {}, token |-> NoToken]

\* C19: once an account is deleted, a request to a protected route that
\* carries a token handed out to it, not expired, is answered 401 'User not
\* found' by the gate and nothing runs; no like request starts for an account
\* that does not exist.
C19_DeletedAccountRejected ==
  [][/\ out' # out /\ out'.op \in GateAnswers /\ TokenOfDeleted(out'.header) =>
          /\ out'.op = "authentication"
          /\ Observable(out') = UserNotFoundAnswer
          /\ NothingRuns
     /\ \A r \in Requests :
          req[r].pc = "idle" /\ req'[r].pc # "idle" =>
            \E u \in users : u.id = req'[r].userId]_vars

C19_Witness ==
  /\ out.op = "authentication" /\ out.message = <<"User", "not", "found">>
  /\ \E t \in issued : ~\E u \in users : u.id = t.id
  /\ \E r \in Requests : req[r].pc = "done" /\ resp[r].status = 201

\* C20: no body of a user operation (register, login, readUser,
\* updateUsername, allUser) has a password attribute.
C20_NoPasswordInBodies ==
  /\ \A j \in out.users : j.password = Absent
  /\ \A k \in Registrations : \A j \in accResp[k].users : j.password = Absent

\* the accounts a path parameter names: by id when it is a number, or by
\* username
NamedBy(param) ==
  {u \in users : (IsNumeric(param) /\ u.id = ParseId(param)) \/ u.username = param}

\* C21: GET /user/:idOrUsername of a request with a valid session answers 200
\* with the account and its liked books when the parameter is the id of an
\* account and when it is the username of one, and 404 when it names none.
C21_ReadByIdOrUsername ==
  [][\A header \in Headers, param \in Params :
       ValidSession(header) /\ ReadRequest("readUser", header, param) =>
         IF NamedBy(param) = {}
           THEN out'.status = 404
           ELSE /\ out'.status = 200
                /\ out'.users =
                     {[Shown(u) EXCEPT !.books = BooksLikedBy(u.id)] : u \in NamedBy(param)}]_vars

\* the ids of a set of accounts
IdsOf(accounts) == {u.id : u \in accounts}

\* C22: the step that deletes an account removes every Like row of that
\* account and leaves the Books table and the Like rows of the accounts that
\* remain as they were.
C22_DeleteCascadesLikesOnly ==
  [][users' # users /\ users' \subseteq users =>
       /\ books' = books
       /\ \A l \in BagToSet(likes') : l.userId \in IdsOf(users')
       /\ \A l \in BagToSet(likes) :
            l.userId \in IdsOf(users') => CopiesIn(l, likes') = CopiesIn(l, likes)]_vars

\* an account that had liked a book is gone, with its Like row, and the book
\* is there and is still liked by another account
C22_Witness ==
  /\ out.op = "delete" /\ out.status = 200
  /\ \E r \in Requests :
       /\ req[r].pc = "done" /\ resp[r].status = 201
       /\ req[r].userId \notin IdsOf(users)
       /\ \E b \in books : b.id = req[r].bookId
       /\ \E l \in BagToSet(likes) : l.bookId = req[r].bookId /\ l.userId \in IdsOf(users)
  /\ \A l \in BagToSet(likes) : l.userId \in IdsOf(users)

\* a text that is a decimal integer: digits, after a minus sign or not
IsInteger(text) ==
  LET digits == IF text # <<>> /\ Head(text) = "-" THEN Tail(text) ELSE text IN
  digits # <<>> /\ \A i \in 1..Len(digits) : Digit(digits[i], 10) >= 0

\* the integer such a text denotes
IntegerOf(text) ==
  IF Head(text) = "-" THEN 0 - DigitsValue(Tail(text), 10, 0) ELSE DigitsValue(text, 10, 0)

\* a text without a number at its start
NonNumeric(text) ==
  LET t == TrimStart(text)
      u == IF t # <<>> /\ Head(t) \in {"-", "+"} THEN Tail(t) ELSE t IN
  u = <<>> \/ HexDigit(Head(u)) \notin 0..9

\* C23: the limit the catalog is called with is the limit of the query
\* clamped into [1, 100] (500 gives 100, 0 gives 1), the page is the page of
\* the query raised to at least 1 (0 gives 1), and a parameter that is missing
\* or not a number gives the default (limit 20, page 1).
C23_ListClamps ==
  out.op = "list" =>
    /\ out.list.called.limit \in 1..100 /\ out.list.called.page >= 1
    /\ out.list.limit.given /\ IsInteger(out.list.limit.text) =>
         out.list.called.limit = Min(Max(IntegerOf(out.list.limit.text), 1), 100)
    /\ out.list.page.given /\ IsInteger(out.list.page.text) =>
         out.list.called.page = Max(IntegerOf(out.list.page.text), 1)
    /\ ~out.list.limit.given \/ NonNumeric(out.list.limit.text) => out.list.called.limit = 20
    /\ ~out.list.page.given \/ NonNumeric(out.list.page.text) => out.list.called.page = 1

\* C24: the error middleware answers ValidationError and DuplicateError with
\* 400, Unauthenticated and InvalidCredentials with 401, Forbidden with 403,
\* NotFound with 404, a database error with 500 and a connection error with
\* 503; an error whose name has no case and that has no status property is
\* answered 500 'Internal Server Error', whatever its own message.
C24_ErrorStatuses ==
  out.op = "errorHandler" =>
    /\ out.error.name \in {"ValidationError", "DuplicateError"} => out.status = 400
    /\ out.error.name \in {"Unauthenticated", "InvalidCredentials"} => out.status = 401
    /\ out.error.name = "Forbidden" => out.status = 403
    /\ out.error.name = "NotFound" => out.status = 404
    /\ out.error.name = "SequelizeDatabaseError" => out.status = 500
    /\ out.error.name \in {"SequelizeConnectionError", "SequelizeConnectionRefusedError"} =>
         out.status = 503
    /\ out.error.name \notin KnownNames /\ out.error.status = 0 =>
         out.status = 500 /\ out.message = <<"Internal", "Server", "Error">>

C24_Witness ==
  /\ out.op = "errorHandler" /\ out.error.name = "TypeError" /\ out.error.status = 0
  /\ out.error.message = <<"secret", "detail">>
  /\ out.status = 500 /\ out.message # out.error.message

\* the requests of account u for the book row b that got past the check for an
\* existing like
PassedCheck(u, b) ==
  {r \in Requests :
     /\ req[r].userId = u /\ req[r].bookId = b
     /\ req[r].pc \in {"createLike", "findPreference", "writePreference", "done"}
     /\ resp[r].error # "DuplicateError"}

\* C25: two Like rows for the same (account, book) come from two concurrent
\* requests of that account for that book that both passed the check for an
\* existing like; neither is rejected, and each answers 201 when it is done.
\* Such a state is reachable.
C25_ConcurrentDuplicateLikes ==
  \A l \in BagToSet(likes) :
    CopiesIn(l, likes) >= 2 =>
      /\ Cardinality(PassedCheck(l.userId, l.bookId)) >= CopiesIn(l, likes)
      /\ \A r \in PassedCheck(l.userId, l.bookId) :
           req[r].pc = "done" => resp[r].status = 201

C25_Witness ==
  \E r1, r2 \in Requests, l \in BagToSet(likes) :
    /\ r1 # r2 /\ CopiesIn(l, likes) = 2
    /\ \A r \in {r1, r2} :
         /\ req[r].pc = "done" /\ resp[r].status = 201
         /\ req[r].userId = l.userId /\ req[r].bookId = l.bookId

\* the positions of a work's list whose subject is processed and normalizes to s
Occurrences(id, s) ==
  {i \in Processed(Catalog(id).subjects) : Normalized(Catalog(id).subjects[i]) = s}

\* request r is the only request of its account
Alone(r) == \A q \in Requests : q # r /\ req[q].pc # "idle" => req[q].userId # req[r].userId

\* C26: a like whose preference update did not fail has raised the total
\* weight of every subject of its work at least to the number of times the
\* list names it, whatever other requests did meanwhile; when it is the only
\* request of its account the total is that number, in a single row when the
\* list spells the subject as it is stored: the subjects are read and written
\* one after the other.  Two concurrent likes of one account whose works
\* share a subject can lose an update or leave a second row.
C26_NoLossWithinRequest ==
  \A r \in Requests :
    req[r].pc = "done" /\ resp[r].status = 201 /\ ~req[r].prefFailed =>
      \A s \in AllSubjects :
        /\ TotalWeight(prefs, req[r].userId, s) >= Cardinality(Occurrences(req[r].id, s))
        /\ Alone(r) =>
             /\ TotalWeight(prefs, req[r].userId, s) = Cardinality(Occurrences(req[r].id, s))
             /\ (\A i \in Occurrences(req[r].id, s) :
                   normalizedSubject(Catalog(req[r].id).subjects[i]) = s) =>
                  Cardinality(PreferencesOf(prefs, req[r].userId, s)) <= 1

\* two concurrent likes of one account, of works that share a subject, are
\* both done: an update is lost, or there is a second row
C26_Witness ==
  \E r1, r2 \in Requests :
    /\ req[r1].id = "OL3" /\ req[r2].id = "OL8" /\ req[r1].userId = req[r2].userId
    /\ \A r \in {r1, r2} : req[r].pc = "done" /\ resp[r].status = 201 /\ ~req[r].prefFailed
    /\ \/ Cardinality(PreferencesOf(prefs, req[r1].userId, <<"q">>)) = 2
       \/ TotalWeight(prefs, req[r1].userId, <<"q">>) < 3

\* C27: no step lowers the weight of a Preference row or removes the row,
\* and every row has a weight of at least 1.
C27_WeightsNeverDecrease ==
  [][/\ \A p \in prefs : \E n \in prefs' : n.id = p.id /\ n.weight >= p.weight
     /\ \A n \in prefs' : n.weight >= 1]_vars

\* C28: a like whose catalog lookup fails is answered in the step in which
\* it arrives, with the tables as they were; no other step of that request
\* follows, and every Book row is of a work the catalog has.
C28_FailedLookupWritesNothing ==
  [][\A r \in Requests :
       /\ req[r].pc = "idle" /\ req'[r].pc # "idle" /\ Catalog(req'[r].id).kind # "work" =>
            /\ req'[r].pc = "done" /\ resp'[r].status \in {404, 500}
            /\ books' = books /\ likes' = likes /\ prefs' = prefs /\ seq' = seq
       /\ req[r].pc = "done" => req'[r] = req[r] /\ resp'[r] = resp[r]
       /\ \A b \in books' : Catalog(b.olid).kind = "work"]_vars

C28_Witness ==
  \E r1, r2 \in Requests :
    /\ req[r1].pc = "done" /\ Catalog(req[r1].id).kind = "http500"
    /\ resp[r1].status = 500 /\ req[r1].bookId = 0
    /\ req[r2].pc = "done" /\ resp[r2].status = 201 /\ req[r2].userId = req[r1].userId
    /\ Cardinality(books) = 1 /\ BagCardinality(likes) = 1

\* C29: the step in which the preference update of a like fails ends the
\* request, with the Preference rows as they are: the subjects after the one
\* that failed are not processed, and the request takes no further step.  A
\* later like of the same book by the same account is rejected as a duplicate
\* at its check for an existing like, with the Preference rows unchanged.
C29_SkippedIncrementsStayLost ==
  [][\A r \in Requests :
       /\ ~req[r].prefFailed /\ req'[r].prefFailed =>
            req'[r].pc = "done" /\ resp'[r].status = 201 /\ prefs' = prefs
       /\ req[r].prefFailed => req'[r] = req[r]
       /\ \A q \in Requests :
            (/\ q # r /\ req[q].prefFailed
             /\ req[r].userId = req[q].userId /\ req[r].bookId = req[q].bookId
             /\ req[r].pc = "findLike" /\ req'[r].pc # "findLike") =>
              /\ req'[r].pc = "done" /\ resp'[r].error = "DuplicateError"
              /\ prefs' = prefs]_vars

\* a like of OL3 failed on a subject and left the account with less than the
\* weight 2 for 'q'; the repeated like was rejected
C29_Witness ==
  \E q, r \in Requests :
    /\ req[q].prefFailed /\ req[q].id = "OL3" /\ req[q].pc = "done"
    /\ req[r].pc = "done" /\ resp[r].error = "DuplicateError"
    /\ req[r].userId = req[q].userId /\ req[r].id = "OL3"
    /\ TotalWeight(prefs, req[q].userId, <<"q">>) = 1

\* the Like rows of account u, with their numbers of copies
OwnLikes(table, u) ==
  {<<l, CopiesIn(l, table)>> : l \in {x \in BagToSet(table) : x.userId = u}}

\* C30: a step of a like of account A leaves the Like rows and the Preference
\* rows of every other account as they are, weights included, also when the
\* other account has liked the same book.
C30_OtherAccountsUntouched ==
  [][\A r \in Requests :
       req'[r] # req[r] =>
         \A u \in Users \ {req'[r].userId} :
           /\ OwnLikes(likes', u) = OwnLikes(likes, u)
           /\ OwnPreferences(prefs', u) = OwnPreferences(prefs, u)]_vars

C30_Witness ==
  \E r1, r2 \in Requests :
    /\ req[r1].userId # req[r2].userId
    /\ req[r1].id = "OL3" /\ req[r2].id = "OL3" /\ req[r1].bookId = req[r2].bookId
    /\ \A r \in {r1, r2} :
         /\ req[r].pc = "done" /\ resp[r].status = 201 /\ ~req[r].prefFailed
         /\ TotalWeight(prefs, req[r].userId, <<"q">>) = 2
         /\ OwnLikes(likes, req[r].userId) =
              {<<[userId |-> req[r].userId, bookId |-> req[r].bookId], 1>>}

====
